---- MODULE Spec2Model ----
(***************************************************************************)
(* Model of the multi-provider data-access layer of stock_advisory_ai:     *)
(* EnhancedDataProviderManager (health tracking, provider selection,       *)
(* retry and failover) over the providers' availability gate.              *)
(***************************************************************************)
EXTENDS Integers, Sequences, FiniteSets, TLC

(* ------------------------------ bounds --------------------------------- *)
\* largest retry_attempts value the configuration is started with
MaxRetries == 2
\* number of calls into the manager and availability changes in one behaviour
MaxCalls == 2
\* the same number in the deep specification
DeepCalls == 3
\* cap on a provider's failure counter
MaxFailures == 6
\* retry_attempts of the long-loop specification (more attempts than providers)
LongRetries == 5
\* number of calls of the symbol specification on one provider instance
MaxSymbolCalls == 2
\* number of calls in the recovery specification
RecoveryCalls == 2
\* number of calls into the legacy manager and availability changes
LegacyCalls == 4

(* ------------------------- program constants --------------------------- *)
None == "none"

\* provider classes of the auto-registration, in its order (lower-cased names)
ClassOrder == <<"fyers", "shoonya", "mstock", "sampledata">>
Names == {ClassOrder[i] : i \in 1..Len(ClassOrder)}

\* PROVIDER_CONFIG['current_priority_order'] and ['default_provider']
ConfigOrder == <<"fyers", "shoonya", "mstock">>
DefaultProvider == "fyers"
\* PROVIDER_CONFIG['failover']['stay_switched'] (never read by the manager)
StaySwitched == TRUE
\* PROVIDER_CONFIG['health_monitoring']['startup_check']
HealthMonitoring == TRUE
\* PROVIDER_CONFIG['failover']['enabled']
FailoverDefault == TRUE
\* PROVIDER_CONFIG['health_monitoring']['recovery_notification']
NotifyDefault == TRUE
\* thresholds of _record_failure
FailedThreshold == 5
DegradedThreshold == 3

Healths == {"healthy", "degraded", "failed", "unknown"}
ErrorKinds == {"rate_limit", "auth", "generic"}
Outcomes == {"ok", "empty", "not_found"} \cup ErrorKinds

VARIABLES
    providers,          \* registry: names in dict insertion order
    provider_order,     \* configured priority restricted to the registry
    preferred_provider, \* manual pin, or None
    current_provider,   \* provider serving the next attempt, or None
    provider_health,    \* name -> health
    failure_counts,     \* name -> consecutive failures
    recovery_notified,  \* name -> one-shot latch
    initialized,        \* _initialized
    max_retries,        \* self.max_retries, read from the configuration
    failover_enabled,   \* configuration: failover.enabled
    notify_recovery,    \* configuration: health_monitoring.recovery_notification
    avail,              \* environment: name -> is_available()
    pc,                 \* "idle" or "try" (inside the retry loop)
    attempt,            \* loop variable of _try_with_intelligent_fallback
    last_error,         \* last_error of the running operation
    result,             \* how the last operation ended
    trace,              \* history: <<provider, outcome>> of every attempt of the operation
    switches,           \* history: successful switches of the operation
    notice,             \* history: provider whose recovery notice the last step logged
    budget,             \* calls into the manager and availability changes left
    instance,           \* provider object whose symbol methods are called
    symbol_cache,       \* its _symbol_cache: <<symbol, exchange>> -> provider symbol
    reverse_cache,      \* its _reverse_cache: provider symbol -> symbol
    symcall,            \* the last symbol call on it: arguments and returned value
    symleft,            \* symbol calls left
    threads,            \* caller thread -> frame of its _try_with_intelligent_fallback
    overlapped,         \* history: an operation started while another was running
    status,             \* legacy manager: name -> provider.status
    error_count,        \* legacy manager: name -> provider.error_count
    retry,              \* legacy manager: inner loop variable of _try_with_fallback
    forced              \* history: provider the preceding force_switch_provider chose

vars == <<providers, provider_order, preferred_provider, current_provider,
          provider_health, failure_counts, recovery_notified, initialized,
          max_retries, failover_enabled, notify_recovery, avail, pc, attempt,
          last_error, result, trace, switches, notice, budget,
          instance, symbol_cache, reverse_cache, symcall, symleft,
          threads, overlapped, status, error_count, retry, forced>>

\* the variables of the symbol methods
symvars == <<instance, symbol_cache, reverse_cache, symcall, symleft>>

\* the variables of the caller threads
thrvars == <<threads, overlapped>>

\* the variables of the legacy DataProviderManager and its providers
legvars == <<status, error_count, retry, forced>>

(* ------------------------------ helpers -------------------------------- *)
Range(s) == {s[i] : i \in 1..Len(s)}

\* list.index, 0 when absent (the code's current_index + 1)
IndexOf(s, x) ==
    IF x \in Range(s) THEN CHOOSE i \in 1..Len(s) : s[i] = x /\ \A j \in 1..(i-1) : s[j] # x
    ELSE 0

Min(S) == CHOOSE x \in S : \A y \in S : x <= y

\* str.lower() on the provider names callers pass
Lower(n) ==
    CASE n = "Fyers" -> "fyers"
      [] n = "FYERS" -> "fyers"
      [] n = "Shoonya" -> "shoonya"
      [] n = "MStock" -> "mstock"
      [] n = "SampleData" -> "sampledata"
      [] OTHER -> n

(* ------------------------- pure parts of the code ---------------------- *)
\* variant that appends the registered providers the configuration does not list
UpdateProviderOrder_AppendsUnlisted(provs) ==
    SelectSeq(ConfigOrder, LAMBDA n : n \in Range(provs))
        \o SelectSeq(provs, LAMBDA n : n \notin Range(ConfigOrder))

\* _update_provider_order: the configured priority restricted to the registry
UpdateProviderOrder(provs) ==
    SelectSeq(ConfigOrder, LAMBDA n : n \in Range(provs))

\* the dict after the auto-registration loop registered the classes in S
RegisterAll(provs, S) ==
    provs \o SelectSeq(ClassOrder, LAMBDA n : n \in S /\ n \notin Range(provs))

\* _is_provider_healthy
IsProviderHealthy(p, provs, health) ==
    /\ p \in Range(provs)
    /\ health[p] # "failed"
    /\ avail[p]

\* variant of _select_best_provider that tries the configured default before the pin
SelectBestProvider_DefaultFirst(pref, provs, order, health) ==
    IF DefaultProvider \in Range(provs) /\ IsProviderHealthy(DefaultProvider, provs, health)
    THEN DefaultProvider
    ELSE IF pref # None /\ IsProviderHealthy(pref, provs, health) THEN pref
    ELSE IF \E i \in 1..Len(order) : IsProviderHealthy(order[i], provs, health)
         THEN order[Min({i \in 1..Len(order) : IsProviderHealthy(order[i], provs, health)})]
    ELSE IF \E i \in 1..Len(provs) : avail[provs[i]]
         THEN provs[Min({i \in 1..Len(provs) : avail[provs[i]]})]
    ELSE None

\* _select_best_provider: the value it leaves in current_provider
SelectBestProvider(pref, provs, order, health) ==
    IF pref # None /\ IsProviderHealthy(pref, provs, health) THEN pref
    ELSE IF /\ pref = None
            /\ DefaultProvider \in Range(provs)
            /\ IsProviderHealthy(DefaultProvider, provs, health) THEN DefaultProvider
    ELSE IF \E i \in 1..Len(order) : IsProviderHealthy(order[i], provs, health)
         THEN order[Min({i \in 1..Len(order) : IsProviderHealthy(order[i], provs, health)})]
    ELSE IF \E i \in 1..Len(provs) : avail[provs[i]]
         THEN provs[Min({i \in 1..Len(provs) : avail[provs[i]]})]
    ELSE None

\* variant of _switch_to_next_provider that scans the priority order from its start
SwitchTarget_FromStart(cur, provs, order, health) ==
    LET cands == {i \in 1..Len(order) : IsProviderHealthy(order[i], provs, health)}
    IN  IF ~failover_enabled THEN None
        ELSE IF cands = {} THEN None
        ELSE order[Min(cands)]

\* variant that switches although failover is disabled
SwitchTarget_IgnoresFlag(cur, provs, order, health) ==
    LET cands == {i \in (IndexOf(order, cur) + 1)..Len(order) :
                     IsProviderHealthy(order[i], provs, health)}
    IN  IF cands = {} THEN None
        ELSE order[Min(cands)]

\* variant that passes over the first healthy provider after the current one
SwitchTarget_SkipsOne(cur, provs, order, health) ==
    LET cands == {i \in (IndexOf(order, cur) + 1)..Len(order) :
                     IsProviderHealthy(order[i], provs, health)}
    IN  IF ~failover_enabled THEN None
        ELSE IF cands \ {Min(cands \cup {Len(order) + 1})} = {} THEN None
        ELSE order[Min(cands \ {Min(cands)})]

\* variant that switches to the next available provider whatever its health is
SwitchTarget_AnyAvailable(cur, provs, order, health) ==
    LET cands == {i \in (IndexOf(order, cur) + 1)..Len(order) :
                     order[i] \in Range(provs) /\ avail[order[i]]}
    IN  IF ~failover_enabled THEN None
        ELSE IF cands = {} THEN None
        ELSE order[Min(cands)]

\* _switch_to_next_provider: the provider it switches to, None when it returns False
SwitchTarget(cur, provs, order, health) ==
    LET cands == {i \in (IndexOf(order, cur) + 1)..Len(order) :
                     IsProviderHealthy(order[i], provs, health)}
    IN  IF ~failover_enabled THEN None
        ELSE IF cands = {} THEN None
        ELSE order[Min(cands)]

\* variant whose failed threshold is one failure later
HealthAfterFailure_FailedAtSix(old, count) ==
    IF count >= FailedThreshold + 1 THEN "failed"
    ELSE IF count >= DegradedThreshold THEN "degraded"
    ELSE old

\* _record_failure: the health it leaves for the new failure count
HealthAfterFailure(old, count) ==
    IF count >= FailedThreshold THEN "failed"
    ELSE IF count >= DegradedThreshold THEN "degraded"
    ELSE old

\* _record_failure: recovery_notified is cleared on entering failed
NotifiedAfterFailure(old, count) ==
    IF count >= FailedThreshold THEN FALSE ELSE old

\* variant that logs the recovery notice on every success
NotifiesRecovery_EverySuccess(oldHealth, notified) ==
    notify_recovery

\* _record_success: whether the recovery notice is logged
NotifiesRecovery(oldHealth, notified) ==
    oldHealth = "failed" /\ notify_recovery /\ ~notified

\* startup_health_check: health of every registered provider from is_available()
HealthCheck(provs, health) ==
    [n \in Names |-> IF n \in Range(provs)
                     THEN (IF avail[n] THEN "healthy" ELSE "failed")
                     ELSE health[n]]

\* _ensure_providers_initialized: the manager fields it leaves and its return
\* value. S is the set of provider classes it registers: all of them, or none
\* when importing the provider modules fails (their constructors do not raise)
EnsureInit(S) ==
    IF initialized /\ Len(providers) > 0 THEN
        [providers |-> providers, order |-> provider_order, health |-> provider_health,
         fails |-> failure_counts, notified |-> recovery_notified,
         current |-> current_provider, initialized |-> initialized, ok |-> TRUE]
    ELSE IF S = {} THEN
        [providers |-> providers, order |-> provider_order, health |-> provider_health,
         fails |-> failure_counts, notified |-> recovery_notified,
         current |-> current_provider, initialized |-> initialized, ok |-> FALSE]
    ELSE
        LET provs1 == RegisterAll(providers, S)
            order1 == UpdateProviderOrder(provs1)
            health1 == [n \in Names |-> IF n \in S THEN "unknown" ELSE provider_health[n]]
            cur1 == IF current_provider = None THEN DefaultProvider ELSE current_provider
            health2 == IF HealthMonitoring THEN HealthCheck(provs1, health1) ELSE health1
            cur2 == IF HealthMonitoring
                    THEN SelectBestProvider(preferred_provider, provs1, order1, health2)
                    ELSE cur1
        IN  [providers |-> provs1, order |-> order1, health |-> health2,
             fails |-> [n \in Names |-> IF n \in S THEN 0 ELSE failure_counts[n]],
             notified |-> [n \in Names |-> IF n \in S THEN FALSE ELSE recovery_notified[n]],
             current |-> cur2, initialized |-> TRUE, ok |-> TRUE]

(* ------------------------- symbol strings ------------------------------ *)
\* A symbol string is modelled by its parts: "reliance" is the base RELIANCE
\* in lower case with no exchange, "NSE:RELIANCE-EQ" the base RELIANCE in
\* upper case qualified with the exchange NSE.
Bases == {"RELIANCE", "TCS"}
Exchanges == {"NSE", "BSE"}
Sym(base, lower) == [ex |-> "", base |-> base, lower |-> lower]
\* symbols callers ask for
Symbols == {Sym("RELIANCE", FALSE), Sym("RELIANCE", TRUE), Sym("TCS", FALSE)}
\* str.upper()
Upper(s) == [s EXCEPT !.lower = FALSE]
\* f"{exchange}:{symbol}-EQ" of FyersProvider.normalize_symbol
FyersFormat(e, s) == [s EXCEPT !.ex = e]
\* strings a provider may be handed back or may return
Spellings == Symbols \cup {FyersFormat(e, s) : e \in Exchanges, s \in Symbols}

\* a dict: d[key] = value, and the empty dict
Put(d, key, value) == [k \in DOMAIN d \cup {key} |-> IF k = key THEN value ELSE d[k]]
EmptyDict == [k \in {} |-> k]

\* _provider_normalize_symbol and _provider_denormalize_symbol: no provider
\* overrides the defaults, which return their argument
ProviderNormalizeSymbol(s, e) == s
ProviderDenormalizeSymbol(ps) == ps

\* BaseDataProvider.normalize_symbol with its two caches
BaseNormalizeSymbol(s, e, sc, rc) ==
    IF <<s, e>> \in DOMAIN sc
    THEN [out |-> sc[<<s, e>>], sc |-> sc, rc |-> rc]
    ELSE LET normalized == ProviderNormalizeSymbol(s, e)
         IN  [out |-> normalized,
              sc |-> Put(sc, <<s, e>>, normalized),
              rc |-> Put(rc, normalized, s)]

\* normalize_symbol of provider p: FyersProvider overrides it, the others
\* inherit BaseDataProvider's
NormalizeSymbol(p, s, e, sc, rc) ==
    IF p = "fyers"
    THEN [out |-> FyersFormat(e, s), sc |-> sc, rc |-> rc]
    ELSE BaseNormalizeSymbol(s, e, sc, rc)

\* BaseDataProvider.denormalize_symbol, inherited by every provider
DenormalizeSymbol(p, ps, sc, rc) ==
    IF ps \in DOMAIN rc
    THEN [out |-> rc[ps], sc |-> sc, rc |-> rc]
    ELSE LET clean_symbol == ProviderDenormalizeSymbol(ps)
         IN  [out |-> clean_symbol,
              sc |-> Put(sc, <<clean_symbol, "NSE">>, ps),
              rc |-> Put(rc, ps, clean_symbol)]

\* an absent string (a missing dict key or DataFrame column)
NoSpelling == [ex |-> "", base |-> "", lower |-> FALSE]
\* spellings in which a provider may name the symbol s in what it returns
ProviderSpells(s) == {s, Upper(s), FyersFormat("NSE", Upper(s))}

\* what provider.get_stock_info(symbol) may return: None or {}, or a dict with
\* the provider's spelling of the symbol and perhaps a provider_symbol
StockInfoData(s) ==
    {[empty |-> TRUE, symbol |-> NoSpelling, exchange |-> "", provider_symbol |-> NoSpelling]}
    \cup {[empty |-> FALSE, symbol |-> x, exchange |-> "", provider_symbol |-> NoSpelling] :
             x \in ProviderSpells(s)}
    \cup {[empty |-> FALSE, symbol |-> x, exchange |-> "", provider_symbol |-> x] :
             x \in ProviderSpells(s)}

\* variant of the closure that keeps the symbol the provider wrote
StockInfoOperation_KeepsProviderSymbol(p, s, e, data, sc, rc) ==
    IF data.empty THEN [out |-> data, sc |-> sc, rc |-> rc]
    ELSE IF data.provider_symbol # NoSpelling
    THEN [out |-> [data EXCEPT !.exchange = e], sc |-> sc, rc |-> rc]
    ELSE LET n == NormalizeSymbol(p, s, e, sc, rc)
         IN  [out |-> [data EXCEPT !.exchange = e, !.provider_symbol = n.out],
              sc |-> n.sc, rc |-> n.rc]

\* the closure _operation of get_stock_info, run on provider p
StockInfoOperation(p, s, e, data, sc, rc) ==
    IF data.empty THEN [out |-> data, sc |-> sc, rc |-> rc]
    ELSE IF data.provider_symbol # NoSpelling
    THEN [out |-> [data EXCEPT !.symbol = s, !.exchange = e], sc |-> sc, rc |-> rc]
    ELSE LET n == NormalizeSymbol(p, s, e, sc, rc)
         IN  [out |-> [data EXCEPT !.symbol = s, !.exchange = e,
                                   !.provider_symbol = n.out],
              sc |-> n.sc, rc |-> n.rc]

\* what provider.get_historical_data may return: None, or a DataFrame given by
\* the symbol column of its rows (NoSpelling: no such column)
NoFrame == [none |-> TRUE, rows |-> <<>>, exchange |-> "", provider_symbol |-> NoSpelling]
HistoricalData(s) ==
    {NoFrame}
    \cup {[none |-> FALSE, rows |-> r, exchange |-> "", provider_symbol |-> NoSpelling] :
             r \in {<<>>, <<Upper(s), Upper(s)>>}
                   \cup {<<x>> : x \in ProviderSpells(s) \cup {NoSpelling}}}

\* the closure _operation of get_historical_data, run on provider p
HistoricalOperation(p, s, e, data, sc, rc) ==
    IF data.none \/ data.rows = <<>> THEN [out |-> data, sc |-> sc, rc |-> rc]
    ELSE LET n == NormalizeSymbol(p, s, e, sc, rc)
         IN  [out |-> [none |-> FALSE,
                       rows |-> [i \in DOMAIN data.rows |-> s],
                       exchange |-> e,
                       provider_symbol |-> n.out],
              sc |-> n.sc, rc |-> n.rc]

\* the inner loop of get_real_time_data's closure: the first key of the
\* provider's dict, from position i on, that is the symbol s or denormalizes
\* to it ignoring case
RECURSIVE FindKey(_, _, _, _, _, _)
FindKey(p, keys, i, s, sc, rc) ==
    IF i > Len(keys) THEN [found |-> FALSE, key |-> NoSpelling, sc |-> sc, rc |-> rc]
    ELSE IF keys[i] = s THEN [found |-> TRUE, key |-> keys[i], sc |-> sc, rc |-> rc]
    ELSE LET d == DenormalizeSymbol(p, keys[i], sc, rc)
         IN  IF Upper(d.out) = Upper(s)
             THEN [found |-> TRUE, key |-> keys[i], sc |-> d.sc, rc |-> d.rc]
             ELSE FindKey(p, keys, i + 1, s, d.sc, d.rc)

\* the outer loop: normalized_data after the requested symbols from position j on
RECURSIVE RealTimeLoop(_, _, _, _, _, _, _, _)
RealTimeLoop(p, symbols, j, e, keys, sc, rc, acc) ==
    IF j > Len(symbols) THEN [out |-> [none |-> FALSE, entries |-> acc], sc |-> sc, rc |-> rc]
    ELSE LET f == FindKey(p, keys, 1, symbols[j], sc, rc)
         IN  RealTimeLoop(p, symbols, j + 1, e, keys, f.sc, f.rc,
                 IF f.found
                 THEN Put(acc, symbols[j],
                          [symbol |-> symbols[j], exchange |-> e, source |-> f.key])
                 ELSE acc)

\* the closure _operation of get_real_time_data, run on provider p; keys are
\* the keys of the dict the provider returned, in its order
RealTimeOperation(p, symbols, e, keys, sc, rc) ==
    IF keys = <<>> THEN [out |-> [none |-> TRUE, entries |-> EmptyDict], sc |-> sc, rc |-> rc]
    ELSE RealTimeLoop(p, symbols, 1, e, keys, sc, rc, EmptyDict)

\* symbol lists callers ask real-time data for, and key lists providers answer with
SymbolLists ==
    {<<x>> : x \in Symbols} \cup {q \in Symbols \X Symbols : q[1].base # q[2].base}
ProviderKeys ==
    {Sym("RELIANCE", FALSE), FyersFormat("NSE", Sym("RELIANCE", FALSE)), Sym("TCS", FALSE)}
KeyLists ==
    {<<>>} \cup {<<x>> : x \in ProviderKeys}
           \cup {q \in ProviderKeys \X ProviderKeys : q[1] # q[2]}

\* threads that call the manager's data operations (two, one operation each)
Threads == {1, 2}
\* the frame of a thread that has not started its operation: pc is its
\* position, name its local current_provider_name, tried the providers its
\* operation attempted, from and to the providers of its last switch
IdleThread ==
    [pc |-> "idle", name |-> None, attempt |-> 0, tried |-> {}, from |-> None,
     to |-> None, result |-> "no_op"]
\* no thread has called the manager
NoThreads ==
    /\ threads = [t \in Threads |-> IdleThread]
    /\ overlapped = FALSE

\* provider.name of the provider classes (the legacy manager does not
\* lower-case its keys), DataProviderStatus, and the status a new provider
\* object has
LegacyNames == {"Fyers", "Shoonya", "MStock", "SampleData"}
Statuses == {"active", "rate_limited", "error", "inactive"}
\* the legacy manager has not been used
NoLegacy ==
    /\ status = [n \in LegacyNames |-> "inactive"]
    /\ error_count = [n \in LegacyNames |-> 0]
    /\ retry = 0
    /\ forced = None

\* no symbol call has been made
NoCall == [fn |-> "none"]
NoSymbolCalls ==
    /\ instance = DefaultProvider
    /\ symbol_cache = EmptyDict
    /\ reverse_cache = EmptyDict
    /\ symcall = NoCall
    /\ symleft = 0

(* ------------------------------- Init ---------------------------------- *)
Init ==
    /\ providers = <<>>
    /\ provider_order = <<>>
    /\ preferred_provider = None
    /\ current_provider = None
    /\ provider_health = [n \in Names |-> "unknown"]
    /\ failure_counts = [n \in Names |-> 0]
    /\ recovery_notified = [n \in Names |-> FALSE]
    /\ initialized = FALSE
    /\ max_retries \in 1..MaxRetries
    /\ failover_enabled = FailoverDefault
    /\ notify_recovery = NotifyDefault
    /\ avail \in [Names -> BOOLEAN]
    /\ pc = "idle"
    /\ attempt = 0
    /\ last_error = None
    /\ result = "no_op"
    /\ trace = <<>>
    /\ switches = 0
    /\ notice = None
    /\ budget = MaxCalls
    /\ NoSymbolCalls
    /\ NoThreads
    /\ NoLegacy

(* ------------------------------ actions -------------------------------- *)
\* the manager fields as _ensure_providers_initialized leaves them
InitFields(e) ==
    /\ providers' = e.providers
    /\ provider_order' = e.order
    /\ provider_health' = e.health
    /\ failure_counts' = e.fails
    /\ recovery_notified' = e.notified
    /\ initialized' = e.initialized

\* the frame and the return value of a finished operation are gone once the
\* caller goes on
ForgetOp ==
    /\ attempt' = 0
    /\ last_error' = None
    /\ result' = "no_op"
    /\ trace' = <<>>
    /\ switches' = 0

\* the environment: a provider's is_available() changes (status, daily cap,
\* time since its last request, session validity)
EnvAvail(p) ==
    /\ budget > 0
    /\ avail' = [avail EXCEPT ![p] = ~@]
    /\ budget' = budget - 1
    /\ notice' = None
    /\ IF pc = "idle" THEN ForgetOp
       ELSE UNCHANGED <<attempt, last_error, result, trace, switches>>
    /\ UNCHANGED <<symvars, thrvars, legvars>>
    /\ UNCHANGED <<providers, provider_order, preferred_provider, current_provider,
                   provider_health, failure_counts, recovery_notified, initialized,
                   max_retries, failover_enabled, notify_recovery, pc>>

\* register_provider(provider, credentials); authOk is the result of
\* provider.authenticate when credentials are given
RegisterProvider(p, authOk) ==
    /\ pc = "idle"
    /\ budget > 0
    /\ budget' = budget - 1
    /\ notice' = None
    /\ IF authOk THEN
          /\ providers' = RegisterAll(providers, {p})
          /\ provider_order' = UpdateProviderOrder(RegisterAll(providers, {p}))
          /\ provider_health' = [provider_health EXCEPT ![p] = "unknown"]
          /\ failure_counts' = [failure_counts EXCEPT ![p] = 0]
          /\ recovery_notified' = [recovery_notified EXCEPT ![p] = FALSE]
          /\ current_provider' = IF current_provider = None THEN DefaultProvider
                                 ELSE current_provider
       ELSE UNCHANGED <<providers, provider_order, provider_health, failure_counts,
                        recovery_notified, current_provider>>
    /\ ForgetOp
    /\ UNCHANGED <<symvars, thrvars, legvars>>
    /\ UNCHANGED <<preferred_provider, initialized, max_retries, failover_enabled,
                   notify_recovery, avail, pc>>

\* variant that pins a provider only while it is healthy
SetPreferredProvider_HealthyOnly(name, S) ==
    /\ pc = "idle"
    /\ budget > 0
    /\ budget' = budget - 1
    /\ notice' = None
    /\ LET e == EnsureInit(S)
       IN  /\ InitFields(e)
           /\ IF /\ e.ok
                 /\ Lower(name) \in Range(e.providers)
                 /\ IsProviderHealthy(Lower(name), e.providers, e.health)
              THEN /\ preferred_provider' = Lower(name)
                   /\ current_provider' = Lower(name)
                   /\ result' = "true"
              ELSE /\ preferred_provider' = preferred_provider
                   /\ current_provider' = e.current
                   /\ result' = "false"
    /\ attempt' = 0 /\ last_error' = None /\ trace' = <<>> /\ switches' = 0
    /\ UNCHANGED <<symvars, thrvars, legvars>>
    /\ UNCHANGED <<max_retries, failover_enabled, notify_recovery, avail, pc>>

\* set_preferred_provider(name); result is the returned bool
SetPreferredProvider(name, S) ==
    /\ pc = "idle"
    /\ budget > 0
    /\ budget' = budget - 1
    /\ notice' = None
    /\ LET e == EnsureInit(S)
       IN  /\ InitFields(e)
           /\ IF e.ok /\ Lower(name) \in Range(e.providers)
              THEN /\ preferred_provider' = Lower(name)
                   /\ current_provider' = Lower(name)
                   /\ result' = "true"
              ELSE /\ preferred_provider' = preferred_provider
                   /\ current_provider' = e.current
                   /\ result' = "false"
    /\ attempt' = 0 /\ last_error' = None /\ trace' = <<>> /\ switches' = 0
    /\ UNCHANGED <<symvars, thrvars, legvars>>
    /\ UNCHANGED <<max_retries, failover_enabled, notify_recovery, avail, pc>>

\* get_active_provider()
GetActiveProvider(S) ==
    /\ pc = "idle"
    /\ budget > 0
    /\ budget' = budget - 1
    /\ notice' = None
    /\ LET e == EnsureInit(S)
       IN  /\ InitFields(e)
           /\ current_provider' =
                 IF e.ok /\ (e.current = None \/ e.current \notin Range(e.providers))
                 THEN SelectBestProvider(preferred_provider, e.providers, e.order, e.health)
                 ELSE e.current
    /\ ForgetOp
    /\ UNCHANGED <<symvars, thrvars, legvars>>
    /\ UNCHANGED <<preferred_provider, max_retries, failover_enabled, notify_recovery,
                   avail, pc>>

\* variant in which the health check drops the pin of a failed provider
StartupHealthCheck_DropsFailedPin ==
    /\ pc = "idle"
    /\ budget > 0
    /\ budget' = budget - 1
    /\ HealthMonitoring
    /\ notice' = None
    /\ provider_health' = HealthCheck(providers, provider_health)
    /\ current_provider' = SelectBestProvider(preferred_provider, providers, provider_order,
                                              HealthCheck(providers, provider_health))
    /\ preferred_provider' =
          IF /\ preferred_provider # None
             /\ HealthCheck(providers, provider_health)[preferred_provider] = "failed"
          THEN None ELSE preferred_provider
    /\ ForgetOp
    /\ UNCHANGED <<symvars, thrvars, legvars>>
    /\ UNCHANGED <<providers, provider_order, failure_counts,
                   recovery_notified, initialized, max_retries, failover_enabled,
                   notify_recovery, avail, pc>>

\* startup_health_check()
StartupHealthCheck ==
    /\ pc = "idle"
    /\ budget > 0
    /\ budget' = budget - 1
    /\ HealthMonitoring
    /\ notice' = None
    /\ provider_health' = HealthCheck(providers, provider_health)
    /\ current_provider' = SelectBestProvider(preferred_provider, providers, provider_order,
                                              HealthCheck(providers, provider_health))
    /\ ForgetOp
    /\ UNCHANGED <<symvars, thrvars, legvars>>
    /\ UNCHANGED <<providers, provider_order, preferred_provider, failure_counts,
                   recovery_notified, initialized, max_retries, failover_enabled,
                   notify_recovery, avail, pc>>

\* variant in which a reset also clears the manual pin
ResetProviderHealth_ClearsPin(name) ==
    /\ pc = "idle"
    /\ budget > 0
    /\ budget' = budget - 1
    /\ notice' = None
    /\ LET hit == IF name = None THEN Range(providers) ELSE {name} \cap Range(providers)
       IN  /\ provider_health' = [n \in Names |-> IF n \in hit THEN "unknown"
                                                  ELSE provider_health[n]]
           /\ failure_counts' = [n \in Names |-> IF n \in hit THEN 0 ELSE failure_counts[n]]
           /\ recovery_notified' = [n \in Names |-> IF n \in hit THEN FALSE
                                                    ELSE recovery_notified[n]]
    /\ ForgetOp
    /\ preferred_provider' = None
    /\ UNCHANGED <<symvars, thrvars, legvars>>
    /\ UNCHANGED <<providers, provider_order, current_provider,
                   initialized, max_retries, failover_enabled, notify_recovery, avail, pc>>

\* reset_provider_health(provider_name); None resets every provider
ResetProviderHealth(name) ==
    /\ pc = "idle"
    /\ budget > 0
    /\ budget' = budget - 1
    /\ notice' = None
    /\ LET hit == IF name = None THEN Range(providers) ELSE {name} \cap Range(providers)
       IN  /\ provider_health' = [n \in Names |-> IF n \in hit THEN "unknown"
                                                  ELSE provider_health[n]]
           /\ failure_counts' = [n \in Names |-> IF n \in hit THEN 0 ELSE failure_counts[n]]
           /\ recovery_notified' = [n \in Names |-> IF n \in hit THEN FALSE
                                                    ELSE recovery_notified[n]]
    /\ ForgetOp
    /\ UNCHANGED <<symvars, thrvars, legvars>>
    /\ UNCHANGED <<providers, provider_order, preferred_provider, current_provider,
                   initialized, max_retries, failover_enabled, notify_recovery, avail, pc>>

\* _try_with_intelligent_fallback up to the head of its retry loop
StartOp(S) ==
    /\ pc = "idle"
    /\ budget > 0
    /\ budget' = budget - 1
    /\ notice' = None
    /\ trace' = <<>>
    /\ switches' = 0
    /\ attempt' = 0
    /\ LET e == EnsureInit(S)
           sel == SelectBestProvider(preferred_provider, e.providers, e.order, e.health)
       IN  /\ InitFields(e)
           /\ IF ~e.ok THEN
                 /\ current_provider' = e.current
                 /\ pc' = "idle" /\ result' = "raised" /\ last_error' = "init_failed"
              ELSE IF sel = None THEN
                 /\ current_provider' = None
                 /\ pc' = "idle" /\ result' = "raised" /\ last_error' = "no_provider"
              ELSE
                 /\ current_provider' = sel
                 /\ pc' = "try" /\ result' = "pending" /\ last_error' = None
    /\ UNCHANGED <<symvars, thrvars, legvars>>
    /\ UNCHANGED <<preferred_provider, max_retries, failover_enabled, notify_recovery,
                   avail>>

\* variant whose loop runs one iteration more
Continue_OneMore(err) ==
    IF attempt <= max_retries
    THEN /\ attempt' = attempt + 1 /\ pc' = "try" /\ result' = "pending"
    ELSE /\ attempt' = attempt /\ pc' = "idle" /\ result' = "raised"

\* the loop of _try_with_intelligent_fallback goes on to its next iteration,
\* or falls off its end and raises last_error
Continue(err) ==
    IF attempt < max_retries
    THEN /\ attempt' = attempt + 1 /\ pc' = "try" /\ result' = "pending"
    ELSE /\ attempt' = attempt /\ pc' = "idle" /\ result' = "raised"

\* the loop is left by break: last_error is raised
Break ==
    /\ attempt' = attempt /\ pc' = "idle" /\ result' = "raised"

\* the except clauses of the retry loop
\* variant in which a call that returns None or an empty result is no success
Succeeds_ValueOnly(out) == out = "ok"
\* returns without raising: _record_success and return result
Succeeds(out) == out \in {"ok", "empty"}
\* variant in which DataNotFoundError is recorded as a failure too
CountsAsFailure_NotFoundToo(out) == out \in {"rate_limit", "auth", "generic", "not_found"}
\* clauses that call _record_failure
CountsAsFailure(out) == out \in {"rate_limit", "auth", "generic"}
\* variant in which only RateLimitError skips the local retry
SwitchesAtOnce_RateLimitOnly(out) == out = "rate_limit"
\* clauses that go straight to _switch_to_next_provider
SwitchesAtOnce(out) == out \in {"rate_limit", "auth"}
\* the generic clause retries the same provider while this holds
RetriesLocally(att) == att < max_retries

\* variant that keeps the first error of the operation
LastError_KeepsFirst(prev, out) == IF prev = None THEN out ELSE prev
\* last_error = e in the except clauses: the error the operation raises at its end
LastError(prev, out) == out

\* one iteration of the retry loop: operation_func runs on the current provider
\* and ends with outcome out
Attempt(out) ==
    /\ pc = "try"
    /\ CountsAsFailure(out) => failure_counts[current_provider] < MaxFailures
    /\ trace' = Append(trace, <<current_provider, out>>)
    /\ LET cp == current_provider
           count == failure_counts[cp] + 1
           healthF == [provider_health EXCEPT ![cp] = HealthAfterFailure(@, count)]
           tgt == SwitchTarget(cp, providers, provider_order, healthF)
       IN  \* health bookkeeping
           /\ IF Succeeds(out) THEN
                 /\ failure_counts' = [failure_counts EXCEPT ![cp] = 0]
                 /\ provider_health' = [provider_health EXCEPT ![cp] = "healthy"]
                 /\ IF NotifiesRecovery(provider_health[cp], recovery_notified[cp])
                    THEN /\ notice' = cp
                         /\ recovery_notified' = [recovery_notified EXCEPT ![cp] = TRUE]
                    ELSE /\ notice' = None
                         /\ recovery_notified' = recovery_notified
              ELSE IF CountsAsFailure(out) THEN
                 /\ failure_counts' = [failure_counts EXCEPT ![cp] = count]
                 /\ provider_health' = healthF
                 /\ recovery_notified' =
                       [recovery_notified EXCEPT ![cp] = NotifiedAfterFailure(@, count)]
                 /\ notice' = None
              ELSE
                 /\ notice' = None
                 /\ UNCHANGED <<provider_health, failure_counts, recovery_notified>>
           \* control flow
           /\ IF Succeeds(out) THEN
                 /\ pc' = "idle"
                 /\ result' = IF out = "ok" THEN "value" ELSE "empty"
                 /\ UNCHANGED <<current_provider, last_error, attempt, switches>>
              ELSE IF out = "not_found" THEN
                 \* DataNotFoundError: return None
                 /\ pc' = "idle"
                 /\ result' = "none"
                 /\ UNCHANGED <<current_provider, last_error, attempt, switches>>
              ELSE IF SwitchesAtOnce(out) THEN
                 /\ last_error' = LastError(last_error, out)
                 /\ IF tgt # None
                    THEN /\ current_provider' = tgt
                         /\ switches' = switches + 1
                         /\ Continue(out)
                    ELSE /\ UNCHANGED <<current_provider, switches>>
                         /\ Break
              ELSE
                 /\ last_error' = LastError(last_error, out)
                 /\ IF RetriesLocally(attempt)
                    THEN /\ UNCHANGED <<current_provider, switches>>
                         /\ Continue(out)
                    ELSE /\ IF tgt # None
                            THEN /\ current_provider' = tgt
                                 /\ switches' = switches + 1
                            ELSE UNCHANGED <<current_provider, switches>>
                         /\ Break
    /\ UNCHANGED <<symvars, thrvars, legvars>>
    /\ UNCHANGED <<providers, provider_order, preferred_provider, initialized,
                   max_retries, failover_enabled, notify_recovery, avail, budget>>

\* provider names callers pass to set_preferred_provider
CallerNames == Names \cup {"Fyers", "MStock", "upstox"}

Next ==
    \/ \E p \in Names : EnvAvail(p)
    \/ \E p \in Names, authOk \in BOOLEAN : RegisterProvider(p, authOk)
    \/ \E n \in CallerNames, S \in {Names, {}} : SetPreferredProvider(n, S)
    \/ \E S \in {Names, {}} : GetActiveProvider(S)
    \/ StartupHealthCheck
    \/ \E n \in Names \cup {None} : ResetProviderHealth(n)
    \/ \E S \in {Names, {}} : StartOp(S)
    \/ \E out \in Outcomes : Attempt(out)

Spec == Init /\ [][Next]_vars

\* one operation on a manager configured with more attempts than providers
InitLong ==
    /\ providers = <<>>
    /\ provider_order = <<>>
    /\ preferred_provider = None
    /\ current_provider = None
    /\ provider_health = [n \in Names |-> "unknown"]
    /\ failure_counts = [n \in Names |-> 0]
    /\ recovery_notified = [n \in Names |-> FALSE]
    /\ initialized = FALSE
    /\ max_retries = LongRetries
    /\ failover_enabled = FailoverDefault
    /\ notify_recovery = NotifyDefault
    /\ avail \in [Names -> BOOLEAN]
    /\ pc = "idle"
    /\ attempt = 0
    /\ last_error = None
    /\ result = "no_op"
    /\ trace = <<>>
    /\ switches = 0
    /\ notice = None
    /\ budget = 1
    /\ NoSymbolCalls
    /\ NoThreads
    /\ NoLegacy

SpecLong == InitLong /\ [][Next]_vars

\* a longer history of calls on a manager with the smallest retry_attempts
InitDeep ==
    /\ providers = <<>>
    /\ provider_order = <<>>
    /\ preferred_provider = None
    /\ current_provider = None
    /\ provider_health = [n \in Names |-> "unknown"]
    /\ failure_counts = [n \in Names |-> 0]
    /\ recovery_notified = [n \in Names |-> FALSE]
    /\ initialized = FALSE
    /\ max_retries = 1
    /\ failover_enabled = FailoverDefault
    /\ notify_recovery = NotifyDefault
    /\ avail \in [Names -> BOOLEAN]
    /\ pc = "idle"
    /\ attempt = 0
    /\ last_error = None
    /\ result = "no_op"
    /\ trace = <<>>
    /\ switches = 0
    /\ notice = None
    /\ budget = DeepCalls
    /\ NoSymbolCalls
    /\ NoThreads
    /\ NoLegacy

SpecDeep == InitDeep /\ [][Next]_vars

\* a manager whose configuration disables failover (failover.enabled = False)
InitNoFailover ==
    /\ providers = <<>>
    /\ provider_order = <<>>
    /\ preferred_provider = None
    /\ current_provider = None
    /\ provider_health = [n \in Names |-> "unknown"]
    /\ failure_counts = [n \in Names |-> 0]
    /\ recovery_notified = [n \in Names |-> FALSE]
    /\ initialized = FALSE
    /\ max_retries \in 1..MaxRetries
    /\ failover_enabled = FALSE
    /\ notify_recovery = NotifyDefault
    /\ avail \in [Names -> BOOLEAN]
    /\ pc = "idle"
    /\ attempt = 0
    /\ last_error = None
    /\ result = "no_op"
    /\ trace = <<>>
    /\ switches = 0
    /\ notice = None
    /\ budget = MaxCalls
    /\ NoSymbolCalls
    /\ NoThreads
    /\ NoLegacy

SpecNoFailover == InitNoFailover /\ [][Next]_vars

\* a manager with enough attempts in one operation to take a provider to
\* failed and on to a success
InitRecovery ==
    /\ providers = <<>>
    /\ provider_order = <<>>
    /\ preferred_provider = None
    /\ current_provider = None
    /\ provider_health = [n \in Names |-> "unknown"]
    /\ failure_counts = [n \in Names |-> 0]
    /\ recovery_notified = [n \in Names |-> FALSE]
    /\ initialized = FALSE
    /\ max_retries = LongRetries
    /\ failover_enabled = FailoverDefault
    /\ notify_recovery = NotifyDefault
    /\ avail \in [Names -> BOOLEAN]
    /\ pc = "idle"
    /\ attempt = 0
    /\ last_error = None
    /\ result = "no_op"
    /\ trace = <<>>
    /\ switches = 0
    /\ notice = None
    /\ budget = RecoveryCalls
    /\ NoSymbolCalls
    /\ NoThreads
    /\ NoLegacy

SpecRecovery == InitRecovery /\ [][Next]_vars

(* ------------------------- the symbol methods -------------------------- *)
\* the variables of the manager
mgrvars == <<providers, provider_order, preferred_provider, current_provider,
             provider_health, failure_counts, recovery_notified, initialized,
             max_retries, failover_enabled, notify_recovery, avail, pc, attempt,
             last_error, result, trace, switches, notice, budget>>

\* instance.normalize_symbol(s, e)
Normalize(s, e) ==
    /\ symleft > 0
    /\ symleft' = symleft - 1
    /\ LET r == NormalizeSymbol(instance, s, e, symbol_cache, reverse_cache)
       IN  /\ symbol_cache' = r.sc
           /\ reverse_cache' = r.rc
           /\ symcall' = [fn |-> "normalize", symbol |-> s, exchange |-> e, out |-> r.out]
    /\ UNCHANGED instance
    /\ UNCHANGED <<mgrvars, thrvars, legvars>>

\* instance.denormalize_symbol(ps)
Denormalize(ps) ==
    /\ symleft > 0
    /\ symleft' = symleft - 1
    /\ LET r == DenormalizeSymbol(instance, ps, symbol_cache, reverse_cache)
       IN  /\ symbol_cache' = r.sc
           /\ reverse_cache' = r.rc
           /\ symcall' = [fn |-> "denormalize", symbol |-> ps, exchange |-> "",
                          out |-> r.out]
    /\ UNCHANGED instance
    /\ UNCHANGED <<mgrvars, thrvars, legvars>>

\* instance.denormalize_symbol(instance.normalize_symbol(s, e))
RoundTrip(s, e) ==
    /\ symleft > 0
    /\ symleft' = symleft - 1
    /\ LET n == NormalizeSymbol(instance, s, e, symbol_cache, reverse_cache)
           d == DenormalizeSymbol(instance, n.out, n.sc, n.rc)
       IN  /\ symbol_cache' = d.sc
           /\ reverse_cache' = d.rc
           /\ symcall' = [fn |-> "round_trip", symbol |-> s, exchange |-> e,
                          out |-> d.out]
    /\ UNCHANGED instance
    /\ UNCHANGED <<mgrvars, thrvars, legvars>>

\* get_stock_info(s, e) served by instance, which returned data
GetStockInfo(s, e, data) ==
    /\ symleft > 0
    /\ symleft' = symleft - 1
    /\ LET r == StockInfoOperation(instance, s, e, data, symbol_cache, reverse_cache)
       IN  /\ symbol_cache' = r.sc
           /\ reverse_cache' = r.rc
           /\ symcall' = [fn |-> "get_stock_info", symbol |-> s, exchange |-> e,
                          given |-> data, out |-> r.out]
    /\ UNCHANGED instance
    /\ UNCHANGED <<mgrvars, thrvars, legvars>>

\* get_historical_data(s, ..., e) served by instance, which returned data
GetHistoricalData(s, e, data) ==
    /\ symleft > 0
    /\ symleft' = symleft - 1
    /\ LET r == HistoricalOperation(instance, s, e, data, symbol_cache, reverse_cache)
       IN  /\ symbol_cache' = r.sc
           /\ reverse_cache' = r.rc
           /\ symcall' = [fn |-> "get_historical_data", symbol |-> s, exchange |-> e,
                          given |-> data, out |-> r.out]
    /\ UNCHANGED instance
    /\ UNCHANGED <<mgrvars, thrvars, legvars>>

\* get_real_time_data(symbols, e) served by instance, which returned a dict
\* with the keys keys
GetRealTimeData(symbols, e, keys) ==
    /\ symleft > 0
    /\ symleft' = symleft - 1
    /\ LET r == RealTimeOperation(instance, symbols, e, keys, symbol_cache, reverse_cache)
       IN  /\ symbol_cache' = r.sc
           /\ reverse_cache' = r.rc
           /\ symcall' = [fn |-> "get_real_time_data", symbols |-> symbols,
                          exchange |-> e, given |-> keys, out |-> r.out]
    /\ UNCHANGED instance
    /\ UNCHANGED <<mgrvars, thrvars, legvars>>

\* a provider object with empty caches, of any of the four classes
InitSymbols ==
    /\ providers = <<>>
    /\ provider_order = <<>>
    /\ preferred_provider = None
    /\ current_provider = None
    /\ provider_health = [n \in Names |-> "unknown"]
    /\ failure_counts = [n \in Names |-> 0]
    /\ recovery_notified = [n \in Names |-> FALSE]
    /\ initialized = FALSE
    /\ max_retries = 1
    /\ failover_enabled = FailoverDefault
    /\ notify_recovery = NotifyDefault
    /\ avail = [n \in Names |-> TRUE]
    /\ pc = "idle"
    /\ attempt = 0
    /\ last_error = None
    /\ result = "no_op"
    /\ trace = <<>>
    /\ switches = 0
    /\ notice = None
    /\ budget = 0
    /\ instance \in Names
    /\ symbol_cache = EmptyDict
    /\ reverse_cache = EmptyDict
    /\ symcall = NoCall
    /\ symleft = MaxSymbolCalls
    /\ NoThreads
    /\ NoLegacy

NextSymbols ==
    \/ \E s \in Symbols, e \in Exchanges : Normalize(s, e)
    \/ \E ps \in Spellings : Denormalize(ps)
    \/ \E s \in Symbols, e \in Exchanges : RoundTrip(s, e)
    \/ \E s \in Symbols, e \in Exchanges : \E data \in StockInfoData(s) :
          GetStockInfo(s, e, data)
    \/ \E s \in Symbols, e \in Exchanges : \E data \in HistoricalData(s) :
          GetHistoricalData(s, e, data)
    \/ \E symbols \in SymbolLists, e \in Exchanges, keys \in KeyLists :
          GetRealTimeData(symbols, e, keys)

SpecSymbols == InitSymbols /\ [][NextSymbols]_vars

(* --------------------- operations of two threads ----------------------- *)
\* The manager is one object shared by its callers and takes no lock. A
\* thread can be descheduled at the loop head and while its provider call
\* waits for the network; the except clause that follows the call (record the
\* failure, switch) is modelled as one step.

\* thread t is inside the retry loop
Running(t) == threads[t].pc \in {"head", "call"}

\* thread t enters _try_with_intelligent_fallback: initialization and
\* _select_best_provider, which writes the shared current_provider
ThreadStart(t, S) ==
    /\ threads[t].pc = "idle"
    /\ overlapped' = (overlapped \/ \E u \in Threads \ {t} : Running(u))
    /\ LET e == EnsureInit(S)
           sel == SelectBestProvider(preferred_provider, e.providers, e.order, e.health)
       IN  /\ InitFields(e)
           /\ IF ~e.ok THEN
                 /\ current_provider' = e.current
                 /\ threads' = [threads EXCEPT ![t] = [@ EXCEPT !.pc = "done",
                                                               !.result = "raised"]]
              ELSE IF sel = None THEN
                 /\ current_provider' = None
                 /\ threads' = [threads EXCEPT ![t] = [@ EXCEPT !.pc = "done",
                                                               !.result = "raised"]]
              ELSE
                 /\ current_provider' = sel
                 /\ threads' = [threads EXCEPT ![t] = [@ EXCEPT !.pc = "head",
                                                               !.result = "pending"]]
    /\ UNCHANGED <<symvars, legvars>>
    /\ UNCHANGED <<preferred_provider, max_retries, failover_enabled, notify_recovery,
                   avail, pc, attempt, last_error, result, trace, switches, notice,
                   budget>>

\* the loop head: current_provider_name = self.current_provider, an
\* unsynchronised read of the shared field
ThreadRead(t) ==
    /\ threads[t].pc = "head"
    /\ threads' = [threads EXCEPT ![t] =
                      IF current_provider \in Range(providers)
                      THEN [@ EXCEPT !.pc = "call", !.name = current_provider]
                      ELSE [@ EXCEPT !.pc = "done", !.result = "raised"]]
    /\ UNCHANGED <<mgrvars, symvars, legvars, overlapped>>

\* the frame of thread t after an iteration that ends with continue
ThreadContinue(f) ==
    IF f.attempt < max_retries
    THEN [f EXCEPT !.attempt = @ + 1, !.pc = "head"]
    ELSE [f EXCEPT !.pc = "done", !.result = "raised"]

\* the provider call of thread t returns or raises, and the except clause runs:
\* the failure is recorded for the thread's local provider name, the switch
\* starts from the shared current_provider
ThreadCall(t, out) ==
    /\ threads[t].pc = "call"
    /\ CountsAsFailure(out) => failure_counts[threads[t].name] < MaxFailures
    /\ LET cp == threads[t].name
           count == failure_counts[cp] + 1
           healthF == [provider_health EXCEPT ![cp] = HealthAfterFailure(@, count)]
           tgt == SwitchTarget(current_provider, providers, provider_order, healthF)
           f == [threads[t] EXCEPT !.tried = @ \cup {cp}]
           switched == [f EXCEPT !.from = cp, !.to = tgt]
           raised == [f EXCEPT !.pc = "done", !.result = "raised"]
       IN  /\ IF Succeeds(out) THEN
                 /\ failure_counts' = [failure_counts EXCEPT ![cp] = 0]
                 /\ provider_health' = [provider_health EXCEPT ![cp] = "healthy"]
                 /\ recovery_notified' =
                       [recovery_notified EXCEPT ![cp] =
                           @ \/ NotifiesRecovery(provider_health[cp], @)]
                 /\ notice' = IF NotifiesRecovery(provider_health[cp], recovery_notified[cp])
                              THEN cp ELSE None
              ELSE IF CountsAsFailure(out) THEN
                 /\ failure_counts' = [failure_counts EXCEPT ![cp] = count]
                 /\ provider_health' = healthF
                 /\ recovery_notified' =
                       [recovery_notified EXCEPT ![cp] = NotifiedAfterFailure(@, count)]
                 /\ notice' = None
              ELSE /\ notice' = None
                   /\ UNCHANGED <<provider_health, failure_counts, recovery_notified>>
           /\ IF Succeeds(out) THEN
                 /\ threads' = [threads EXCEPT ![t] = [f EXCEPT !.pc = "done",
                                                               !.result = "value"]]
                 /\ UNCHANGED current_provider
              ELSE IF out = "not_found" THEN
                 /\ threads' = [threads EXCEPT ![t] = [f EXCEPT !.pc = "done",
                                                               !.result = "none"]]
                 /\ UNCHANGED current_provider
              ELSE IF SwitchesAtOnce(out) THEN
                 IF tgt # None
                 THEN /\ current_provider' = tgt
                      /\ threads' = [threads EXCEPT ![t] = ThreadContinue(switched)]
                 ELSE /\ UNCHANGED current_provider
                      /\ threads' = [threads EXCEPT ![t] = raised]
              ELSE
                 IF f.attempt < max_retries
                 THEN /\ UNCHANGED current_provider
                      /\ threads' = [threads EXCEPT ![t] = ThreadContinue(f)]
                 ELSE IF tgt # None
                 THEN /\ current_provider' = tgt
                      /\ threads' = [threads EXCEPT ![t] =
                                        [switched EXCEPT !.pc = "done", !.result = "raised"]]
                 ELSE /\ UNCHANGED current_provider
                      /\ threads' = [threads EXCEPT ![t] = raised]
    /\ UNCHANGED <<symvars, legvars>>
    /\ UNCHANGED <<providers, provider_order, preferred_provider, initialized,
                   max_retries, failover_enabled, notify_recovery, avail, pc, attempt,
                   last_error, result, trace, switches, budget, overlapped>>

\* outcomes of the provider calls of the threads
ThreadOutcomes == {"ok", "not_found", "rate_limit", "generic"}

NextThreads ==
    \/ \E t \in Threads, S \in {Names, {}} : ThreadStart(t, S)
    \/ \E t \in Threads : ThreadRead(t)
    \/ \E t \in Threads, out \in ThreadOutcomes : ThreadCall(t, out)

\* a fresh manager called by the two threads; the availability of the
\* providers does not change while the two operations run
InitThreads ==
    /\ providers = <<>>
    /\ provider_order = <<>>
    /\ preferred_provider = None
    /\ current_provider = None
    /\ provider_health = [n \in Names |-> "unknown"]
    /\ failure_counts = [n \in Names |-> 0]
    /\ recovery_notified = [n \in Names |-> FALSE]
    /\ initialized = FALSE
    /\ max_retries \in 1..MaxRetries
    /\ failover_enabled = FailoverDefault
    /\ notify_recovery = NotifyDefault
    /\ avail \in [Names -> BOOLEAN]
    /\ pc = "idle"
    /\ attempt = 0
    /\ last_error = None
    /\ result = "no_op"
    /\ trace = <<>>
    /\ switches = 0
    /\ notice = None
    /\ budget = 0
    /\ NoSymbolCalls
    /\ NoThreads
    /\ NoLegacy

SpecThreads == InitThreads /\ [][NextThreads]_vars

(* -------------------- the legacy DataProviderManager ------------------- *)
\* provider_manager.py. Its state is providers, provider_order and
\* current_provider, and the status and error_count fields of the provider
\* objects; avail stands for check_rate_limit(), the part of is_available()
\* the manager does not write.

\* self.max_retries_per_provider
MaxRetriesPerProvider == 3
\* BaseDataProvider.max_errors
MaxErrors == 5

\* provider.priority.value: Fyers, Shoonya and MStock are PRIMARY, SampleData BACKUP
Priority(n) == IF n = "SampleData" THEN 4 ELSE 1

\* BaseDataProvider.is_available
LegacyAvailable(n, st) == st[n] \in {"active", "inactive"} /\ avail[n]

\* DataProviderManager._update_provider_order: the providers whose status is
\* ACTIVE or INACTIVE, stable-sorted by priority
RECURSIVE SortedFrom(_, _, _)
SortedFrom(provs, st, k) ==
    IF k > 4 THEN <<>>
    ELSE SelectSeq(provs, LAMBDA n : Priority(n) = k /\ st[n] \in {"active", "inactive"})
            \o SortedFrom(provs, st, k + 1)
LegacyProviderOrder(provs, st) == SortedFrom(provs, st, 1)

\* the environment: check_rate_limit() of a provider changes
LegacyEnv(p) ==
    /\ budget > 0
    /\ budget' = budget - 1
    /\ avail' = [avail EXCEPT ![p] = ~@]
    /\ UNCHANGED <<providers, provider_order, preferred_provider, current_provider,
                   provider_health, failure_counts, recovery_notified, initialized,
                   max_retries, failover_enabled, notify_recovery, pc, attempt,
                   last_error, result, trace, switches, notice>>
    /\ UNCHANGED <<symvars, thrvars, legvars>>

\* DataProviderManager.register_provider(provider, credentials): ok is false
\* when credentials are given and authenticate fails; st is the status of the
\* provider object (ACTIVE when it authenticated)
LegacyRegisterProvider(p, ok, st) ==
    /\ pc = "idle"
    /\ budget > 0
    /\ budget' = budget - 1
    /\ forced' = None
    /\ IF ok THEN
          LET provs1 == IF p \in Range(providers) THEN providers ELSE Append(providers, p)
              status1 == [status EXCEPT ![p] = st]
          IN  /\ providers' = provs1
              /\ status' = status1
              /\ error_count' = [error_count EXCEPT ![p] = 0]
              /\ provider_order' = LegacyProviderOrder(provs1, status1)
              /\ current_provider' = IF current_provider = None /\ st = "active"
                                     THEN p ELSE current_provider
              /\ result' = "true"
       ELSE /\ result' = "false"
            /\ UNCHANGED <<providers, status, error_count, provider_order,
                           current_provider>>
    /\ attempt' = 0 /\ last_error' = None /\ trace' = <<>> /\ switches' = 0
    /\ UNCHANGED <<preferred_provider, provider_health, failure_counts,
                   recovery_notified, initialized, max_retries, failover_enabled,
                   notify_recovery, avail, pc, notice, retry>>
    /\ UNCHANGED <<symvars, thrvars>>

\* DataProviderManager.force_switch_provider(provider_name); result is the
\* returned bool
ForceSwitchProvider(name) ==
    /\ pc = "idle"
    /\ budget > 0
    /\ budget' = budget - 1
    /\ IF name \in Range(providers) /\ LegacyAvailable(name, status)
       THEN /\ current_provider' = name
            /\ result' = "true"
            /\ forced' = name
       ELSE /\ current_provider' = current_provider
            /\ result' = "false"
            /\ forced' = None
    /\ attempt' = 0 /\ last_error' = None /\ trace' = <<>> /\ switches' = 0
    /\ UNCHANGED <<providers, provider_order, preferred_provider,
                   provider_health, failure_counts, recovery_notified, initialized,
                   max_retries, failover_enabled, notify_recovery, avail, pc, notice>>
    /\ UNCHANGED <<symvars, thrvars, status, error_count, retry>>

\* a data operation enters _try_with_fallback: the outer loop starts at the
\* head of provider_order
LegacyStartOp ==
    /\ pc = "idle"
    /\ budget > 0
    /\ budget' = budget - 1
    /\ pc' = "head"
    /\ attempt' = 0
    /\ retry' = 0
    /\ last_error' = None
    /\ result' = "pending"
    /\ trace' = <<>>
    /\ switches' = 0
    /\ UNCHANGED <<providers, provider_order, preferred_provider, current_provider,
                   provider_health, failure_counts, recovery_notified, initialized,
                   max_retries, failover_enabled, notify_recovery, avail, notice>>
    /\ UNCHANGED <<symvars, thrvars, status, error_count, forced>>

\* the head of the outer loop, `for attempt, provider_name in
\* enumerate(self.provider_order)`: the loop ends and raises, or skips a
\* provider that is not available, or enters the retry loop
LegacyHead ==
    /\ pc = "head"
    /\ IF attempt >= Len(provider_order)
       THEN /\ pc' = "idle"
            /\ result' = "raised"
            /\ forced' = None
            /\ UNCHANGED <<attempt, retry>>
       ELSE IF ~LegacyAvailable(provider_order[attempt + 1], status)
       THEN /\ attempt' = attempt + 1
            /\ UNCHANGED <<pc, result, retry, forced>>
       ELSE /\ pc' = "try"
            /\ retry' = 0
            /\ UNCHANGED <<attempt, result, forced>>
    /\ UNCHANGED <<providers, provider_order, preferred_provider, current_provider,
                   provider_health, failure_counts, recovery_notified, initialized,
                   max_retries, failover_enabled, notify_recovery, avail, last_error,
                   trace, switches, notice, budget>>
    /\ UNCHANGED <<symvars, thrvars, status, error_count>>

\* one iteration of the retry loop on provider_order[attempt + 1]
LegacyAttempt(out) ==
    /\ pc = "try"
    /\ LET p == provider_order[attempt + 1]
           count == error_count[p] + 1
       IN  /\ current_provider' = p
           /\ trace' = Append(trace, <<p, out>>)
           /\ IF out \in {"ok", "empty"} THEN
                 \* record_request, reset_error_count, return result
                 /\ error_count' = [error_count EXCEPT ![p] = 0]
                 /\ status' = [status EXCEPT ![p] =
                                  IF error_count[p] > 0 /\ @ = "error" THEN "active" ELSE @]
                 /\ pc' = "idle"
                 /\ result' = IF out = "ok" THEN "value" ELSE "empty"
                 /\ forced' = None
                 /\ UNCHANGED <<attempt, retry, last_error>>
              ELSE IF out = "rate_limit" THEN
                 /\ status' = [status EXCEPT ![p] = "rate_limited"]
                 /\ last_error' = out
                 /\ pc' = "head"
                 /\ attempt' = attempt + 1
                 /\ UNCHANGED <<error_count, retry, result, forced>>
              ELSE IF out = "auth" THEN
                 /\ status' = [status EXCEPT ![p] = "error"]
                 /\ last_error' = out
                 /\ pc' = "head"
                 /\ attempt' = attempt + 1
                 /\ UNCHANGED <<error_count, retry, result, forced>>
              ELSE IF out = "not_found" THEN
                 /\ pc' = "idle"
                 /\ result' = "none"
                 /\ forced' = None
                 /\ UNCHANGED <<status, error_count, attempt, retry, last_error>>
              ELSE
                 \* record_error
                 /\ error_count' = [error_count EXCEPT ![p] = count]
                 /\ status' = [status EXCEPT ![p] = IF count >= MaxErrors THEN "error" ELSE @]
                 /\ last_error' = out
                 /\ IF retry < MaxRetriesPerProvider - 1
                    THEN /\ retry' = retry + 1
                         /\ UNCHANGED <<pc, attempt>>
                    ELSE /\ pc' = "head"
                         /\ attempt' = attempt + 1
                         /\ UNCHANGED retry
                 /\ UNCHANGED <<result, forced>>
    /\ UNCHANGED <<providers, provider_order, preferred_provider,
                   provider_health, failure_counts, recovery_notified, initialized,
                   max_retries, failover_enabled, notify_recovery, avail,
                   switches, notice, budget>>
    /\ UNCHANGED <<symvars, thrvars>>

\* provider names callers pass to force_switch_provider
LegacyCallerNames == LegacyNames \cup {"fyers"}

NextLegacy ==
    \/ \E p \in LegacyNames : LegacyEnv(p)
    \/ \E p \in LegacyNames, ok \in BOOLEAN, st \in {"active", "inactive"} :
          LegacyRegisterProvider(p, ok, st)
    \/ \E n \in LegacyCallerNames : ForceSwitchProvider(n)
    \/ LegacyStartOp
    \/ LegacyHead
    \/ \E out \in Outcomes : LegacyAttempt(out)

\* DataProviderManager.__init__
InitLegacy ==
    /\ providers = <<>>
    /\ provider_order = <<>>
    /\ preferred_provider = None
    /\ current_provider = None
    /\ provider_health = [n \in Names |-> "unknown"]
    /\ failure_counts = [n \in Names |-> 0]
    /\ recovery_notified = [n \in Names |-> FALSE]
    /\ initialized = FALSE
    /\ max_retries = MaxRetriesPerProvider
    /\ failover_enabled = FailoverDefault
    /\ notify_recovery = NotifyDefault
    /\ avail \in [LegacyNames -> BOOLEAN]
    /\ pc = "idle"
    /\ attempt = 0
    /\ last_error = None
    /\ result = "no_op"
    /\ trace = <<>>
    /\ switches = 0
    /\ notice = None
    /\ budget = LegacyCalls
    /\ NoSymbolCalls
    /\ NoThreads
    /\ NoLegacy

SpecLegacy == InitLegacy /\ [][NextLegacy]_vars

(* ------------------------ the public data calls ----------------------- *)
\* get_stock_info, get_historical_data, get_real_time_data and search_stocks
\* wrap _try_with_intelligent_fallback in try/except Exception
Wrappers == {"get_stock_info", "get_historical_data", "get_real_time_data",
             "search_stocks"}

\* variant whose except clause lets the error of the last attempt through
PublicReturn_ReraisesLast(fn, res, err) ==
    IF res = "raised" /\ err \in ErrorKinds THEN "raised"
    ELSE IF res = "raised" THEN (IF fn = "search_stocks" THEN "empty_list" ELSE "none")
    ELSE IF fn = "search_stocks" /\ res \in {"empty", "none"} THEN "empty_list"
    ELSE res

\* what wrapper fn returns to its caller when the operation under it ended
\* with res (and, when it raised, with the error err): the wrapper returns
\* None, search_stocks [], when initialization fails or an exception arrives,
\* and search_stocks turns a falsy result into []
PublicReturn(fn, res, err) ==
    IF res = "raised" THEN (IF fn = "search_stocks" THEN "empty_list" ELSE "none")
    ELSE IF fn = "search_stocks" /\ res \in {"empty", "none"} THEN "empty_list"
    ELSE res

(* ------------------------------ properties ----------------------------- *)
\* p is healthy in the sense of _is_provider_healthy, in the current state
Healthy(p) == IsProviderHealthy(p, providers, provider_health)

\* the step is one loop iteration that ended with an outcome in outs
AttemptStep(outs) ==
    /\ pc = "try"
    /\ Len(trace') = Len(trace) + 1
    /\ trace'[Len(trace')][2] \in outs

\* the step starts an operation and gets as far as _select_best_provider
StartStep ==
    /\ pc = "idle"
    /\ result' \in {"pending", "raised"}
    /\ last_error' # "init_failed"

\* what _select_best_provider guarantees about current_provider
SelectionPost ==
    /\ (preferred_provider # None /\ Healthy(preferred_provider))
          => current_provider = preferred_provider
    /\ (preferred_provider = None /\ Healthy(DefaultProvider))
          => current_provider = DefaultProvider
    /\ (/\ preferred_provider = None
        /\ ~Healthy(DefaultProvider)
        /\ \E i \in 1..Len(provider_order) : Healthy(provider_order[i]))
          => \E i \in 1..Len(provider_order) :
                /\ current_provider = provider_order[i]
                /\ Healthy(provider_order[i])
                /\ \A j \in 1..(i-1) : ~Healthy(provider_order[j])

\* C1: selection priority. After every step that ends in _select_best_provider
\* (the start of an operation, the startup health check): a pinned provider
\* that is healthy is the current provider whatever the default and the
\* priority order are; with no pin the current provider is the default when it
\* is registered and healthy, and otherwise the first healthy provider of the
\* priority order (when there is one).
C1_SelectionPriority ==
    [][(StartStep \/ StartupHealthCheck) => SelectionPost']_vars

\* C1 witness: an operation has started on a pinned provider that is not the
\* default while the default is healthy too
C1_Witness ==
    /\ pc = "try"
    /\ trace = <<>>
    /\ preferred_provider \notin {None, DefaultProvider}
    /\ Healthy(DefaultProvider)
    /\ current_provider = preferred_provider

\* C2: not-found isolation. An attempt that ends with DataNotFoundError ends
\* the operation with the result None and leaves every failure count, every
\* health, current_provider and the number of switches unchanged.
C2_NotFoundIsolation ==
    [][AttemptStep({"not_found"}) =>
          /\ pc' = "idle"
          /\ result' = "none"
          /\ failure_counts' = failure_counts
          /\ provider_health' = provider_health
          /\ recovery_notified' = recovery_notified
          /\ current_provider' = current_provider
          /\ switches' = switches]_vars

\* C2 witness: an operation ended on DataNotFoundError of a provider that had
\* recorded failures before
C2_Witness ==
    /\ pc = "idle"
    /\ result = "none"
    /\ trace # <<>>
    /\ failure_counts[current_provider] > 0

\* C3 (as claimed): an operation raises a generic error only when every provider
\* of the priority order has been exhausted, that is no healthy provider of the
\* priority order is left unattempted.
C3_GenericReachesCallerOnlyWhenExhausted ==
    [][(AttemptStep({"generic"}) /\ result' = "raised") =>
          ~ \E i \in 1..Len(provider_order) :
                /\ Healthy(provider_order[i])'
                /\ \A k \in 1..Len(trace') : trace'[k][1] # provider_order[i]]_vars

\* C4 (as claimed): an operation raises RateLimitError only when no registered
\* provider other than the one that raised it is not failed and available.
C4_RateLimitNeverFailsWhileOtherHealthy ==
    [][(AttemptStep({"rate_limit"}) /\ result' = "raised") =>
          ~ \E q \in Range(providers) \ {current_provider} : Healthy(q)']_vars

\* C5: on RateLimitError or AuthenticationError exactly one failure is recorded
\* for the provider and it is not retried: when the loop goes on, the current
\* provider is a different one with a larger index in the priority order (a
\* provider outside the priority order counts as before its first entry).
C5_NoLocalRetryOnRateLimitOrAuth ==
    [][AttemptStep({"rate_limit", "auth"}) =>
          /\ failure_counts'[current_provider] = failure_counts[current_provider] + 1
          /\ \A q \in Names \ {current_provider} : failure_counts'[q] = failure_counts[q]
          /\ pc' = "try" =>
                /\ current_provider' # current_provider
                /\ IndexOf(provider_order, current_provider')
                      > IndexOf(provider_order, current_provider)]_vars

\* C5 witness: after an AuthenticationError the loop goes on with another provider
C5_Witness ==
    /\ pc = "try"
    /\ Len(trace) >= 1
    /\ trace[Len(trace)][2] = "auth"
    /\ current_provider # trace[Len(trace)][1]

\* every attempt of the operation so far raised a provider error
AllFailed == \A k \in 1..Len(trace) : trace[k][2] \in ErrorKinds

\* C6: failover termination. The loop makes at most max_retries + 1 attempts,
\* an operation switches at most N times, N the number of registered
\* providers, and an operation whose attempts all failed ends by raising.
C6_FailoverTermination ==
    /\ Len(trace) <= max_retries + 1
    /\ pc = "try" => (attempt = Len(trace) /\ attempt <= max_retries)
    /\ switches <= Cardinality(Range(providers))
    /\ (pc = "idle" /\ trace # <<>> /\ AllFailed) => result = "raised"

\* C6 witness: an operation in which every attempt failed has switched through
\* the whole priority order, with attempts to spare, and raised
C6_Witness ==
    /\ pc = "idle"
    /\ result = "raised"
    /\ trace # <<>>
    /\ AllFailed
    /\ switches = Len(provider_order) - 1
    /\ switches >= 2
    /\ Len(trace) < max_retries + 1

\* C7 (as claimed): a new operation does not start on a provider whose health
\* is failed while some registered provider is not failed and available.
C7_FailedProviderSkipped ==
    [][(StartStep /\ pc' = "try" /\ \E q \in Range(providers') : Healthy(q)')
          => provider_health'[current_provider'] # "failed"]_vars

\* C8 (as claimed): with failover enabled, when the pinned provider raises a
\* rate-limit or authentication error while another registered provider is
\* not failed and available, the operation goes on with another provider.
C8_PinnedFailover ==
    [][(/\ AttemptStep({"rate_limit", "auth"})
        /\ failover_enabled
        /\ current_provider = preferred_provider
        /\ \E q \in Range(providers) \ {current_provider} : Healthy(q)')
       => (pc' = "try" /\ current_provider' # current_provider)]_vars

\* C9 (as claimed): with stay_switched set and no pin, the operation after one
\* that failed over and succeeded on provider B starts on B while B is healthy.
C9_StaySwitched ==
    [][(/\ StaySwitched
        /\ preferred_provider = None
        /\ pc = "idle" /\ result \in {"value", "empty"} /\ switches >= 1
        /\ StartStep /\ pc' = "try"
        /\ Healthy(current_provider))
       => current_provider' = current_provider]_vars

\* C10 (as claimed): with recovery notification enabled, every step that takes
\* a registered provider from failed to healthy logs that provider's recovery
\* notice.
C10_RecoveryNoticeOnEveryRecovery ==
    [][\A p \in Range(providers) :
          (notify_recovery /\ provider_health[p] = "failed"
                           /\ provider_health'[p] = "healthy")
             => notice' = p]_vars

\* providers a reset_provider_health(n) call acts on
ResetHit(n) == IF n = None THEN Range(providers) ELSE {n} \cap Range(providers)

\* C11: reset_provider_health(name) on a registered provider sets that
\* provider's failure count to 0, its health to unknown and its
\* recovery_notified to false, and with no name it does so for every
\* registered provider; current_provider, preferred_provider and the health
\* records of the providers not named are unchanged.
C11_ResetFrameEffect ==
    [][\A n \in Names \cup {None} : ResetProviderHealth(n) =>
          /\ \A p \in ResetHit(n) :
                /\ failure_counts'[p] = 0
                /\ provider_health'[p] = "unknown"
                /\ recovery_notified'[p] = FALSE
          /\ \A p \in Names \ ResetHit(n) :
                /\ failure_counts'[p] = failure_counts[p]
                /\ provider_health'[p] = provider_health[p]
                /\ recovery_notified'[p] = recovery_notified[p]
          /\ current_provider' = current_provider
          /\ preferred_provider' = preferred_provider]_vars

\* C11 witness: the call after the initialization (whose health check left
\* no provider unknown) was a reset of every provider
C11_Witness ==
    /\ initialized
    /\ budget = MaxCalls - 2
    /\ Len(providers) = Len(ClassOrder)
    /\ current_provider # None
    /\ \A p \in Range(providers) :
          /\ provider_health[p] = "unknown"
          /\ failure_counts[p] = 0
          /\ recovery_notified[p] = FALSE

\* the step is a set_preferred_provider(n) call
SetPreferredStep(n) == \E S \in {Names, {}} : SetPreferredProvider(n, S)

\* C12 (as claimed): set_preferred_provider(name) returns false and leaves
\* preferred_provider and current_provider unchanged when no provider of that
\* name, compared case-insensitively, is registered; otherwise it returns true
\* and preferred_provider and current_provider both equal that provider.
C12_SetPreferredAsClaimed ==
    [][\A n \in CallerNames : SetPreferredStep(n) =>
          IF Lower(n) \notin Range(providers')
          THEN /\ result' = "false"
               /\ preferred_provider' = preferred_provider
               /\ current_provider' = current_provider
          ELSE /\ result' = "true"
               /\ preferred_provider' = Lower(n)
               /\ current_provider' = Lower(n)]_vars

\* C12 (amended): set_preferred_provider(name) first makes sure the providers
\* are initialized. When that fails it returns false and changes neither
\* preferred_provider nor current_provider, registered name or not. When no
\* provider of that name, compared case-insensitively, is registered it
\* returns false and leaves preferred_provider unchanged, and current_provider
\* too unless this call did the initialization. Otherwise it returns true and
\* preferred_provider and current_provider both equal that provider, whatever
\* its health is.
C12_SetPreferred ==
    [][\A n \in CallerNames : SetPreferredStep(n) =>
          IF ~initialized'
          THEN /\ result' = "false"
               /\ preferred_provider' = preferred_provider
               /\ current_provider' = current_provider
          ELSE IF Lower(n) \notin Range(providers')
          THEN /\ result' = "false"
               /\ preferred_provider' = preferred_provider
               /\ initialized => current_provider' = current_provider
          ELSE /\ result' = "true"
               /\ preferred_provider' = Lower(n)
               /\ current_provider' = Lower(n)]_vars

\* C12 witness: a provider whose health is failed has been pinned
C12_Witness ==
    /\ result = "true"
    /\ preferred_provider # None
    /\ current_provider = preferred_provider
    /\ provider_health[preferred_provider] = "failed"

\* C13: the pin is sticky. preferred_provider changes only in a
\* set_preferred_provider call that returns true; no data operation, failover
\* switch, recorded success or failure, health reset, registration or startup
\* health check changes or clears it.
C13_PinSticky ==
    [][preferred_provider' # preferred_provider =>
          /\ \E n \in CallerNames : SetPreferredStep(n)
          /\ result' = "true"]_vars

\* C13 witness: an operation on a pinned provider has failed over to another
\* provider and the pin is still there
C13_Witness ==
    /\ preferred_provider # None
    /\ switches >= 1
    /\ trace # <<>>
    /\ trace[1][1] = preferred_provider
    /\ current_provider # preferred_provider

\* number of attempts the sequence of attempts tr made on provider p
AttemptsOn(tr, p) == Cardinality({k \in 1..Len(tr) : tr[k][1] = p})

\* C14 (as claimed): when the manager switches away from a provider that kept
\* raising generic errors, the operation has attempted that provider exactly
\* retry_attempts times.
C14_ExactRetryCount ==
    [][(AttemptStep({"generic"}) /\ current_provider' # current_provider)
          => AttemptsOn(trace', current_provider) = max_retries]_vars

\* C15: with failover disabled _switch_to_next_provider never changes
\* current_provider: an operation never switches, every attempt of it went to
\* one provider, the one that is still current, and an operation whose
\* attempts all failed ended by raising the error.
C15_FailoverDisabled ==
    ~failover_enabled =>
        /\ switches = 0
        /\ \A k \in 1..Len(trace) : trace[k][1] = current_provider
        /\ (pc = "idle" /\ trace # <<>> /\ AllFailed) => result = "raised"

\* C15 witness: with failover disabled an operation raised a rate-limit error
\* while a healthy provider stood later in the priority order
C15_Witness ==
    /\ ~failover_enabled
    /\ pc = "idle"
    /\ result = "raised"
    /\ trace # <<>>
    /\ trace[Len(trace)][2] = "rate_limit"
    /\ \E i \in 1..Len(provider_order) :
          /\ i > IndexOf(provider_order, current_provider)
          /\ Healthy(provider_order[i])

\* C16: when an operation ends because its providers and retries failed, the
\* error it raises is the one caught on its most recent attempt.
C16_LastErrorRaised ==
    (pc = "idle" /\ result = "raised" /\ trace # <<>>)
        => last_error = trace[Len(trace)][2]

\* C16 witness: an operation raised after attempts that failed with
\* different errors
C16_Witness ==
    /\ pc = "idle"
    /\ result = "raised"
    /\ Len(trace) >= 2
    /\ trace[1][2] # trace[Len(trace)][2]
    /\ last_error = trace[Len(trace)][2]

\* C18 (as claimed): round-trip law. For every provider, symbol s and exchange
\* e, denormalize_symbol(normalize_symbol(s, e)) equals s.upper().
C18_RoundTrip ==
    symcall.fn = "round_trip" => symcall.out = Upper(symcall.symbol)

\* C17: every non-empty result of get_stock_info and get_historical_data
\* carries as its symbol exactly the symbol the caller asked for, whichever
\* provider served it and however that provider spelled the symbol, and
\* get_real_time_data returns entries only for requested symbols, each with
\* that symbol.
C17_RequestedSymbolInResults ==
    /\ symcall.fn = "get_stock_info" =>
          (~symcall.out.empty => symcall.out.symbol = symcall.symbol)
    /\ symcall.fn = "get_historical_data" =>
          \A i \in DOMAIN symcall.out.rows : symcall.out.rows[i] = symcall.symbol
    /\ symcall.fn = "get_real_time_data" =>
          \A k \in DOMAIN symcall.out.entries :
             /\ k \in Range(symcall.symbols)
             /\ symcall.out.entries[k].symbol = k

\* C17 witness: a real-time request for a lower-case symbol was answered from
\* a provider dict that spells the symbol in upper case and also holds a
\* symbol nobody asked for
C17_Witness ==
    /\ symcall.fn = "get_real_time_data"
    /\ Sym("RELIANCE", TRUE) \in DOMAIN symcall.out.entries
    /\ symcall.out.entries[Sym("RELIANCE", TRUE)].source = Sym("RELIANCE", FALSE)
    /\ Sym("TCS", FALSE) \in Range(symcall.given)
    /\ Sym("TCS", FALSE) \notin Range(symcall.symbols)

\* what every recorded failure and every success does to the provider that
\* served the attempt
RecordRules ==
    /\ AttemptStep(ErrorKinds) =>
          LET count == failure_counts'[current_provider]
          IN  /\ count = failure_counts[current_provider] + 1
              /\ count \in {3, 4} => provider_health'[current_provider] = "degraded"
              /\ count >= 5 => provider_health'[current_provider] = "failed"
    /\ AttemptStep({"ok", "empty"}) =>
          /\ failure_counts'[current_provider] = 0
          /\ provider_health'[current_provider] = "healthy"

\* the step is a success of provider p or a reset_provider_health call
SuccessOrReset(p) ==
    \/ AttemptStep({"ok", "empty"}) /\ p = current_provider
    \/ \E n \in Names \cup {None} : ResetProviderHealth(n)

C20_HealthFromCountAlone ==
    \A p \in Range(providers) :
        /\ provider_health[p] = "degraded" <=> failure_counts[p] \in {3, 4}
        /\ provider_health[p] = "failed" <=> failure_counts[p] >= 5
        /\ failure_counts[p] < 3 => provider_health[p] \in {"healthy", "unknown"}

\* C21: recovery notification idempotence. The success of a provider that
\* reached failed through recorded failures (failure count at the failed
\* threshold) logs that provider's recovery notice and sets the latch; a
\* success that follows a success of the same provider (count 0, health
\* healthy) logs none.
C21_RecoveryNoticeOnce ==
    [][AttemptStep({"ok", "empty"}) =>
          /\ (/\ provider_health[current_provider] = "failed"
              /\ failure_counts[current_provider] >= FailedThreshold)
                => (notice' = current_provider /\ recovery_notified'[current_provider])
          /\ (/\ provider_health[current_provider] = "healthy"
              /\ failure_counts[current_provider] = 0)
                => notice' = None]_vars

\* C21 witness: the provider that recovered in the first operation (its latch
\* is set) has succeeded again in the next one, and no notice was logged
C21_Witness ==
    /\ pc = "idle"
    /\ budget = RecoveryCalls - 2
    /\ Len(trace) = 1
    /\ trace[1] = <<current_provider, "ok">>
    /\ recovery_notified[current_provider]
    /\ notice = None

\* a provider later in the priority order than p is healthy under health
LaterHealthy(p, health) ==
    \E i \in (IndexOf(provider_order, p) + 1)..Len(provider_order) :
        IsProviderHealthy(provider_order[i], providers, health)

\* C22: switching rule. Within one operation every switch moves to a provider
\* strictly later in the priority order than the provider just attempted (a
\* provider outside the priority order counts as before its first entry),
\* whose health is not failed and which the operation has not attempted; when
\* no healthy provider stands later in the order the switch fails, and an
\* operation whose switch fails ends by raising.
C22_SwitchingRule ==
    [][AttemptStep(Outcomes) =>
          /\ current_provider' # current_provider =>
                /\ IndexOf(provider_order, current_provider')
                      > IndexOf(provider_order, current_provider)
                /\ provider_health'[current_provider'] # "failed"
                /\ \A k \in 1..Len(trace') : trace'[k][1] # current_provider'
          /\ (/\ AttemptStep({"rate_limit", "auth"})
              /\ ~LaterHealthy(current_provider, provider_health')) =>
                current_provider' = current_provider
          /\ (AttemptStep({"rate_limit", "auth"}) /\ current_provider' = current_provider) =>
                (pc' = "idle" /\ result' = "raised")]_vars

\* C22 witness: an operation has switched twice, each time to the next
\* provider of the priority order, and its third provider failed too with no
\* provider left to switch to
C22_Witness ==
    /\ pc = "idle"
    /\ result = "raised"
    /\ switches = 2
    /\ Len(trace) = 3
    /\ trace[3][1] = current_provider
    /\ ~LaterHealthy(current_provider, provider_health)

\* the providers attempted by the operations of the threads
Attempted == UNION {threads[t].tried : t \in Threads}

\* the last switch of thread t passed over a provider of the priority order
\* that is healthy and that no operation has attempted
Skipped(t) ==
    /\ threads[t].to # None
    /\ \E i \in 1..Len(provider_order) :
          /\ IndexOf(provider_order, threads[t].from) < i
          /\ i < IndexOf(provider_order, threads[t].to)
          /\ Healthy(provider_order[i])
          /\ provider_order[i] \notin Attempted

\* C23: a state in which a switch has passed over a healthy provider that
\* neither operation attempted is reached only when the two operations ran
\* interleaved; when they run one at a time it is unreachable.
C23_SkipOnlyWhenInterleaved ==
    (\E t \in Threads : Skipped(t)) => overlapped

\* C23 witness: two interleaved operations have ended, one of them switched
\* from the default provider past a healthy provider that neither attempted
C23_Witness ==
    /\ overlapped
    /\ \A t \in Threads : threads[t].pc = "done"
    /\ \E t \in Threads : Skipped(t) /\ threads[t].from = DefaultProvider

\* C24: provider_order is the configured priority list restricted to the
\* registered providers, in the configured order: every entry is registered
\* and configured, no entry repeats, every registered provider of the
\* configured list appears, and the entries stand in the configured order.
C24_ProviderOrder ==
    /\ \A i \in 1..Len(provider_order) :
          /\ provider_order[i] \in Range(providers)
          /\ provider_order[i] \in Range(ConfigOrder)
    /\ \A i, j \in 1..Len(provider_order) :
          i < j => /\ provider_order[i] # provider_order[j]
                   /\ IndexOf(ConfigOrder, provider_order[i])
                         < IndexOf(ConfigOrder, provider_order[j])
    /\ \A n \in Range(providers) \cap Range(ConfigOrder) : n \in Range(provider_order)

\* C24 witness: a provider the configuration does not list was registered
\* first and a configured one after it
C24_Witness ==
    /\ providers = <<"sampledata", "mstock">>
    /\ provider_order = <<"mstock">>

\* C25: no attempt of an operation is made on a provider whose health is
\* failed at the moment of the attempt.
C25_NoAttemptOnFailed ==
    [][AttemptStep(Outcomes) => provider_health[current_provider] # "failed"]_vars

C27_EmptyResultIsSuccess ==
    [][AttemptStep({"empty"}) =>
          /\ failure_counts'[current_provider] = 0
          /\ provider_health'[current_provider] = "healthy"
          /\ pc' = "idle"
          /\ result' = "empty"
          /\ attempt' = attempt
          /\ current_provider' = current_provider
          /\ switches' = switches]_vars

\* C27 witness: a provider raised a generic error and then, on the local
\* retry, returned an empty result, which ended the operation and cleared
\* its failure count
C27_Witness ==
    /\ pc = "idle"
    /\ result = "empty"
    /\ Len(trace) = 2
    /\ trace[1] = <<current_provider, "generic">>
    /\ trace[2] = <<current_provider, "empty">>
    /\ failure_counts[current_provider] = 0
    /\ provider_health[current_provider] = "healthy"

\* C28: in every reachable state current_provider is unset or the name of a
\* registered provider.
C28_CurrentProviderRegistered ==
    current_provider = None \/ current_provider \in Range(providers)

\* C29: no exception reaches the caller of the public data calls. Whenever
\* the operation under a wrapper has ended, the wrapper returns a value, and
\* when the operation raised (initialization failed, no provider was
\* available, or all providers and retries failed) get_stock_info,
\* get_historical_data and get_real_time_data return None and search_stocks
\* returns an empty list.
C29_NoExceptionReachesCaller ==
    (pc = "idle" /\ result \in {"raised", "value", "empty", "none"}) =>
        \A fn \in Wrappers :
            /\ PublicReturn(fn, result, last_error) # "raised"
            /\ result = "raised" =>
                  PublicReturn(fn, result, last_error) =
                     (IF fn = "search_stocks" THEN "empty_list" ELSE "none")

\* C29 witness: an operation whose providers and retries all failed, after a
\* switch, ended by raising the last error inside the wrapper
C29_Witness ==
    /\ pc = "idle"
    /\ result = "raised"
    /\ last_error \in ErrorKinds
    /\ switches >= 1
    /\ Len(trace) = max_retries + 1
    /\ AllFailed
    /\ PublicReturn("get_stock_info", result, last_error) = "none"
    /\ PublicReturn("search_stocks", result, last_error) = "empty_list"

\* C30 (as claimed): legacy manager. After force_switch_provider(P) returned
\* true, the first attempt of the next data operation is made on P (P being
\* still available); when it returns false, current_provider is unchanged.
C30_ForceSwitchHonoured ==
    [][/\ (/\ pc = "try" /\ trace = <<>> /\ trace' # <<>>
           /\ forced # None /\ LegacyAvailable(forced, status))
             => trace'[1][1] = forced
       /\ \A n \in LegacyCallerNames :
             (ForceSwitchProvider(n) /\ result' = "false")
                => current_provider' = current_provider]_vars

====
